---- MODULE Spec2Model ----
(***************************************************************************)
(* Hangman: the HangmanGame session of src/hangman.py and the loop of      *)
(* main() that drives it.                                                  *)
(*                                                                         *)
(* A Python str is modelled as a sequence of characters; a character is a  *)
(* TLA+ string naming it ("a", "A", "1", " ", ...).  "U+0130" is LATIN     *)
(* CAPITAL LETTER I WITH DOT ABOVE, whose str.lower() is the two           *)
(* characters "i", "U+0307" (COMBINING DOT ABOVE, not alphabetic).         *)
(***************************************************************************)
EXTENDS Integers, Sequences, FiniteSets, TLC

VARIABLES
    level,            \* self.level
    file,             \* data/words.txt and data/phrases.txt: whether they exist, their lines
    dictionary,       \* self.dictionary
    current_lives,    \* self.current_lives
    guessed_letters,  \* self.guessed_letters
    game_over,        \* self.game_over
    won,              \* self.won
    target_word,      \* self.target_word
    display_word,     \* self.display_word
    start_time,       \* self.start_time
    now,              \* time.time()
    phase,            \* "new" (fields set, dictionary not loaded), "live", "failed"
    outcome,          \* what the last call returned or raised
    pc,               \* where main() stands
    round_begin       \* history: the clock when main() began the round

vars == << level, file, dictionary, current_lives, guessed_letters, game_over,
           won, target_word, display_word, start_time, now, phase, outcome,
           pc, round_begin >>

main_vars == << pc, round_begin >>

----------------------------------------------------------------------------
(* Bounds of the model *)

\* Times are counted in ticks, TicksPerSecond to the second: time.time() is
\* a float, and a tick is the resolution the model gives it.  The clock
\* advances in steps of TickStep ticks, up to MaxClock.
TicksPerSecond == 2
TickStep == 17
MaxClock == 35

(* Program constants *)
max_lives == 6
time_limit == 15

----------------------------------------------------------------------------
(* Characters and strings *)

LowerLetters ==
    { "a", "b", "c", "d", "e", "f", "g", "h", "i", "j", "k", "l", "m",
      "n", "o", "p", "q", "r", "s", "t", "u", "v", "w", "x", "y", "z" }

UpperLetters == { "A", "U+0130" }

Whitespace == { " ", "\n" }

\* str.isalpha() on one character
char_isalpha(c) == c \in LowerLetters \cup UpperLetters

\* str.isalpha(): every character alphabetic and at least one character
isalpha(s) == Len(s) > 0 /\ \A i \in 1..Len(s) : char_isalpha(s[i])

\* str.lower() on one character: a string, not always of length one
char_lower(c) ==
    IF c = "A" THEN << "a" >>
    ELSE IF c = "U+0130" THEN << "i", "U+0307" >>
    ELSE << c >>

RECURSIVE lower(_)
lower(s) == IF s = << >> THEN << >> ELSE char_lower(Head(s)) \o lower(Tail(s))

RECURSIVE lstrip(_)
lstrip(s) ==
    IF s # << >> /\ Head(s) \in Whitespace THEN lstrip(Tail(s)) ELSE s

RECURSIVE rstrip(_)
rstrip(s) ==
    IF s # << >> /\ s[Len(s)] \in Whitespace
    THEN rstrip(SubSeq(s, 1, Len(s) - 1)) ELSE s

\* str.strip()
strip(s) == rstrip(lstrip(s))

\* sub in s, for strings
str_in(sub, s) ==
    \E i \in 0..(Len(s) - Len(sub)) : SubSeq(s, i + 1, i + Len(sub)) = sub

----------------------------------------------------------------------------
(* The dictionary source *)

Levels == { "basic", "intermediate" }

fallback_words ==
    << << "p", "y", "t", "h", "o", "n" >>,
       << "p", "r", "o", "g", "r", "a", "m", "m", "i", "n", "g" >>,
       << "c", "o", "m", "p", "u", "t", "e", "r" >>,
       << "a", "l", "g", "o", "r", "i", "t", "h", "m" >>,
       << "s", "o", "f", "t", "w", "a", "r", "e" >> >>

fallback_phrases ==
    << << "h", "e", "l", "l", "o", " ", "w", "o", "r", "l", "d" >>,
       << "u", "n", "i", "t", " ", "t", "e", "s", "t", "i", "n", "g" >>,
       << "s", "o", "f", "t", "w", "a", "r", "e", " ",
          "d", "e", "v", "e", "l", "o", "p", "m", "e", "n", "t" >> >>

\* data/words.txt and data/phrases.txt when they hold lines
WordsFile ==
    << << "A", "b", "a", "\n" >>,
       << "1", "\n" >> >>

PhrasesFile ==
    << << " ", "a", " ", "b", "\n" >>,
       << "U+0130", "a" >> >>

\* The states of the two files: missing, present and empty, present with
\* lines.
FileStates ==
    { [ exists |-> FALSE, words |-> << >>, phrases |-> << >> ],
      [ exists |-> TRUE, words |-> << >>, phrases |-> << >> ],
      [ exists |-> TRUE, words |-> WordsFile, phrases |-> PhrasesFile ] }

\* open() raises FileNotFoundError exactly when the file does not exist
_load_dictionary(lv, f) ==
    IF ~f.exists
    THEN IF lv = "basic" THEN fallback_words ELSE fallback_phrases
    ELSE LET lines == IF lv = "basic" THEN f.words ELSE f.phrases
         IN  [ i \in 1..Len(lines) |-> lower(strip(lines[i])) ]

----------------------------------------------------------------------------
(* The session *)

\* _select_target masking every character, alphabetic or not
masked_all(target) == [ i \in 1..Len(target) |-> "_" ]

\* the display_word _select_target builds for a target
masked(target) ==
    [ i \in 1..Len(target) |-> IF char_isalpha(target[i]) THEN "_" ELSE target[i] ]

is_won_of(display) == \A i \in 1..Len(display) : display[i] # "_"

is_won == is_won_of(display_word)

\* n seconds, in ticks
seconds(n) == n * TicksPerSecond

\* the fields of the session a method can read and write
Self ==
    [ current_lives |-> current_lives, guessed_letters |-> guessed_letters,
      game_over |-> game_over, won |-> won, target_word |-> target_word,
      display_word |-> display_word, start_time |-> start_time ]

\* get_remaining_time without the floor at zero
remaining_of_unclamped(self, clock) ==
    IF self.start_time = 0 THEN seconds(time_limit)
    ELSE seconds(time_limit) - (clock - self.start_time)

\* the remaining time of a session `self` at time `clock`, in ticks
remaining_of(self, clock) ==
    IF self.start_time = 0 THEN seconds(time_limit)
    ELSE LET elapsed == clock - self.start_time
             remaining == seconds(time_limit) - elapsed
         IN  IF remaining > 0 THEN remaining ELSE 0

get_remaining_time == remaining_of(Self, now)

is_time_up == get_remaining_time <= 0

is_game_over == game_over \/ is_time_up \/ current_lives <= 0

RECURSIVE join(_, _)
\* sep.join(parts), for parts that are characters
join(sep, parts) ==
    IF Len(parts) = 0 THEN << >>
    ELSE IF Len(parts) = 1 THEN << parts[1] >>
    ELSE << parts[1], sep >> \o join(sep, Tail(parts))

get_display_string == join(" ", display_word)

\* int() of a time that is not negative: truncation to whole seconds
int(ticks) == ticks \div TicksPerSecond

\* get_game_status testing the lives before the timer
get_game_status_lives_first ==
    IF won
    THEN [ text |-> "Congratulations! You guessed the word: ", word |-> target_word ]
    ELSE IF current_lives <= 0
    THEN [ text |-> "Game over! The answer was: ", word |-> target_word ]
    ELSE IF is_time_up
    THEN [ text |-> "Time's up! The answer was: ", word |-> target_word ]
    ELSE [ text |-> "Time remaining: ", seconds |-> int(get_remaining_time) ]

\* the report: its fixed text and the word or the number it shows
get_game_status ==
    IF won
    THEN [ text |-> "Congratulations! You guessed the word: ", word |-> target_word ]
    ELSE IF is_time_up
    THEN [ text |-> "Time's up! The answer was: ", word |-> target_word ]
    ELSE IF current_lives <= 0
    THEN [ text |-> "Game over! The answer was: ", word |-> target_word ]
    ELSE [ text |-> "Time remaining: ", seconds |-> int(get_remaining_time) ]

_get_body_part ==
    LET lives_lost == max_lives - current_lives IN
    IF lives_lost >= 3 THEN "  | /|\\"
    ELSE IF lives_lost >= 2 THEN "  | /|"
    ELSE IF lives_lost >= 1 THEN "  |  |"
    ELSE "  |   "

_get_legs_part ==
    LET lives_lost == max_lives - current_lives IN
    IF lives_lost >= 5 THEN "  | / \\"
    ELSE IF lives_lost >= 4 THEN "  | /"
    ELSE IF lives_lost >= 1 THEN "  |"
    ELSE "  |   "

\* the wrong guesses found by comparing single characters
wrong_guesses_by_char(guessed, target) ==
    { letter \in guessed : \A i \in 1..Len(target) : << target[i] >> # letter }

\* the guessed letters that are not in the target
wrong_guesses(guessed, target) ==
    { letter \in guessed : ~str_in(letter, target) }

\* the drawing: its six lines, the "Lives remaining" figure, and the
\* "Wrong guesses" line (present when there is a wrong guess; the line lists
\* the letters sorted, here they are kept as a set)
get_hangman_drawing ==
    [ hangman_parts |->
         << "  ____",
            "  |  |",
            IF max_lives - current_lives >= 1 THEN "  |  O" ELSE "  |   ",
            _get_body_part,
            _get_legs_part,
            "__|__" >>,
      lives_remaining |-> current_lives,
      wrong_line |-> wrong_guesses(guessed_letters, target_word) # {},
      wrong_guesses |-> wrong_guesses(guessed_letters, target_word) ]

\* a call's outcome: the method, and what it returned or raised
Returned(op, v) == [ op |-> op, ret |-> v, raised |-> "none" ]
Raised(op, e) == [ op |-> op, ret |-> "none", raised |-> e ]

InvalidInput == "ValueError: Please enter a single letter"
DuplicateGuess == "ValueError: Letter has already been guessed"
IndexError == "IndexError: Cannot choose from an empty sequence"

\* _select_target with random.choice picking index i
_select_target(i) ==
    /\ target_word' = dictionary'[i]
    /\ display_word' = masked(dictionary'[i])

\* HangmanGame.__init__; random.choice raises IndexError on an empty list
__init__(lv) ==
    /\ phase = "new"
    /\ level' = lv
    /\ current_lives' = 6
    /\ guessed_letters' = {}
    /\ game_over' = FALSE
    /\ won' = FALSE
    /\ start_time' = 0
    /\ dictionary' = _load_dictionary(lv, file)
    /\ IF Len(dictionary') = 0
       THEN /\ target_word' = << >>
            /\ display_word' = << >>
            /\ phase' = "failed"
            /\ outcome' = Raised("__init__", IndexError)
       ELSE /\ \E i \in 1..Len(dictionary') : _select_target(i)
            /\ phase' = "live"
            /\ outcome' = Returned("__init__", "None")
    /\ UNCHANGED << file, now >>

start_timer ==
    /\ phase = "live"
    /\ start_time' = now
    /\ outcome' = Returned("start_timer", "None")
    /\ UNCHANGED << level, file, dictionary, current_lives, guessed_letters,
                    game_over, won, target_word, display_word, now, phase >>

\* the input check without the length test
invalid_input_any_length(letter) == ~isalpha(letter)

\* the input check of make_guess
invalid_input(letter) == Len(letter) # 1 \/ ~isalpha(letter)

\* the duplicate check made on the letter as typed
already_guessed_as_typed(guessed, letter) == letter \in guessed

\* the duplicate check of make_guess, made after lowercasing
already_guessed(guessed, letter) == lower(letter) \in guessed

\* the test of line 85 letting the count pass zero
lives_exhausted_below_zero(lives) == lives < 0

\* the test of line 85
lives_exhausted(lives) == lives <= 0

\* make_guess refusing every guess once the time is up
make_guess_on_timed(self, clock, letter) ==
    IF remaining_of(self, clock) <= 0
    THEN [ self |-> [ self EXCEPT !.game_over = TRUE ],
           outcome |-> Returned("make_guess", "False") ]
    ELSE
    IF invalid_input(letter)
    THEN [ self |-> self, outcome |-> Raised("make_guess", InvalidInput) ]
    ELSE LET l == lower(letter) IN
         IF already_guessed(self.guessed_letters, letter)
         THEN [ self |-> self, outcome |-> Raised("make_guess", DuplicateGuess) ]
         ELSE LET added == [ self EXCEPT !.guessed_letters = @ \cup { l } ] IN
              IF str_in(l, self.target_word)
              THEN LET display ==
                         [ i \in 1..Len(self.display_word) |->
                             IF << self.target_word[i] >> = l
                             THEN self.target_word[i] ELSE self.display_word[i] ]
                   IN  [ self |-> [ added EXCEPT
                                      !.display_word = display,
                                      !.won = @ \/ is_won_of(display),
                                      !.game_over = @ \/ is_won_of(display) ],
                         outcome |-> Returned("make_guess", "True") ]
              ELSE LET lives == self.current_lives - 1 IN
                   [ self |-> [ added EXCEPT
                                  !.current_lives = lives,
                                  !.game_over = @ \/ lives_exhausted(lives) ],
                     outcome |-> Returned("make_guess", "False") ]

\* make_guess on the session `self` at time `clock`: the session it leaves
\* and what the call returns or raises
make_guess_on(self, clock, letter) ==
    IF invalid_input(letter)
    THEN [ self |-> self, outcome |-> Raised("make_guess", InvalidInput) ]
    ELSE LET l == lower(letter) IN
         IF already_guessed(self.guessed_letters, letter)
         THEN [ self |-> self, outcome |-> Raised("make_guess", DuplicateGuess) ]
         ELSE LET added == [ self EXCEPT !.guessed_letters = @ \cup { l } ] IN
              IF str_in(l, self.target_word)
              THEN LET display ==
                         [ i \in 1..Len(self.display_word) |->
                             IF << self.target_word[i] >> = l
                             THEN self.target_word[i] ELSE self.display_word[i] ]
                   IN  [ self |-> [ added EXCEPT
                                      !.display_word = display,
                                      !.won = @ \/ is_won_of(display),
                                      !.game_over = @ \/ is_won_of(display) ],
                         outcome |-> Returned("make_guess", "True") ]
              ELSE LET lives == self.current_lives - 1 IN
                   [ self |-> [ added EXCEPT
                                  !.current_lives = lives,
                                  !.game_over = @ \/ lives_exhausted(lives) ],
                     outcome |-> Returned("make_guess", "False") ]

make_guess(letter) ==
    /\ phase = "live"
    /\ \E r \in { make_guess_on(Self, now, letter) } :
       /\ current_lives' = r.self.current_lives
       /\ guessed_letters' = r.self.guessed_letters
       /\ game_over' = r.self.game_over
       /\ won' = r.self.won
       /\ target_word' = r.self.target_word
       /\ display_word' = r.self.display_word
       /\ start_time' = r.self.start_time
       /\ outcome' = r.outcome
    /\ UNCHANGED << level, file, dictionary, now, phase >>

\* reset_game leaving the timer running
reset_game_keeps_timer ==
    /\ phase = "live"
    /\ current_lives' = max_lives
    /\ guessed_letters' = {}
    /\ game_over' = FALSE
    /\ won' = FALSE
    /\ UNCHANGED << dictionary, start_time >>
    /\ \E i \in 1..Len(dictionary') : _select_target(i)
    /\ outcome' = Returned("reset_game", "None")
    /\ UNCHANGED << level, file, now, phase >>

\* reset_game leaving the won flag set
reset_game_keeps_won ==
    /\ phase = "live"
    /\ current_lives' = max_lives
    /\ guessed_letters' = {}
    /\ game_over' = FALSE
    /\ start_time' = 0
    /\ UNCHANGED << dictionary, won >>
    /\ \E i \in 1..Len(dictionary') : _select_target(i)
    /\ outcome' = Returned("reset_game", "None")
    /\ UNCHANGED << level, file, now, phase >>

reset_game ==
    /\ phase = "live"
    /\ current_lives' = max_lives
    /\ guessed_letters' = {}
    /\ game_over' = FALSE
    /\ won' = FALSE
    /\ start_time' = 0
    /\ UNCHANGED dictionary
    /\ \E i \in 1..Len(dictionary') : _select_target(i)
    /\ outcome' = Returned("reset_game", "None")
    /\ UNCHANGED << level, file, now, phase >>

\* the methods that only report
Queries ==
    { "get_remaining_time", "is_time_up", "is_won", "is_game_over",
      "get_display_string", "get_game_status", "get_hangman_drawing" }

\* a query that stores what it finds: is_game_over setting game_over
query_storing(q) ==
    /\ phase = "live"
    /\ game_over' = IF q = "is_game_over" THEN is_game_over ELSE game_over
    /\ UNCHANGED << level, file, dictionary, current_lives, guessed_letters,
                    won, target_word, display_word, start_time, now, phase,
                    outcome >>

\* a call of a query: no line of lines 52-60, 89-149 assigns a field
query(q) ==
    /\ phase = "live"
    /\ UNCHANGED << level, file, dictionary, current_lives, guessed_letters,
                    game_over, won, target_word, display_word, start_time,
                    now, phase, outcome >>

----------------------------------------------------------------------------
(* The session driven by any caller *)

\* the strings a caller passes to make_guess
Inputs ==
    { << "a" >>, << "b" >>, << "A" >>, << "U+0130" >>,
      << "x" >>, << "y" >>, << "z" >>, << "w" >>, << "v" >>,
      << >>, << "1" >>, << " " >>, << "a", "b" >>, << "1", "2" >> }

Construct == (\E lv \in Levels : __init__(lv)) /\ UNCHANGED main_vars

StartTimer == start_timer /\ UNCHANGED main_vars

Guess == (\E letter \in Inputs : make_guess(letter)) /\ UNCHANGED main_vars

Reset == reset_game /\ UNCHANGED main_vars

Query == (\E q \in Queries : query(q)) /\ UNCHANGED main_vars

\* time passes
Tick ==
    /\ now + TickStep <= MaxClock
    /\ now' = now + TickStep
    /\ UNCHANGED << level, file, dictionary, current_lives, guessed_letters,
                    game_over, won, target_word, display_word, start_time,
                    phase, outcome, pc, round_begin >>

\* the fields as __init__ sets them before it loads the dictionary
Fields ==
    /\ level = "none"
    /\ dictionary = << >>
    /\ current_lives = 6
    /\ guessed_letters = {}
    /\ game_over = FALSE
    /\ won = FALSE
    /\ target_word = << >>
    /\ display_word = << >>
    /\ start_time = 0
    /\ phase = "new"
    /\ outcome = Returned("none", "None")

Init ==
    /\ file \in FileStates
    /\ now = 1
    /\ Fields
    /\ pc = "none"
    /\ round_begin = 0

Next == Construct \/ StartTimer \/ Guess \/ Reset \/ Query \/ Tick

Spec == Init /\ [][Next]_vars

----------------------------------------------------------------------------
(* main(): the loop that drives one session from the terminal *)

\* what the player types at "Enter your choice (1 or 2): "
Choices == { << "1" >>, << " ", "2" >>, << "a" >>, << >> }

\* what the player types at "Would you like to play again? (y/n): "
Answers == { << "y" >>, << " ", "y", "\n" >>, << "b" >>, << >> }

\* what the player types at "Enter a letter: "
RawInputs == Inputs \cup { << " ", "a" >>, << "b", " " >> }

\* lines 166-181: the level is chosen, then the session is constructed; an
\* exception of the constructor is not caught
main_choose(choice) ==
    /\ pc = "choose"
    /\ IF strip(choice) \in { << "1" >>, << "2" >> }
       THEN /\ __init__(IF strip(choice) = << "1" >> THEN "basic" ELSE "intermediate")
            /\ pc' = IF phase' = "failed" THEN "crashed" ELSE "top"
            /\ round_begin' = now
       ELSE UNCHANGED vars

\* the head of an iteration without the is_game_over test
main_top_unchecked ==
    /\ pc = "top"
    /\ start_timer
    /\ pc' = "guess"
    /\ UNCHANGED round_begin

\* lines 184-189: the head of every iteration
main_top ==
    /\ pc = "top"
    /\ start_timer
    /\ pc' = IF is_game_over' THEN "replay" ELSE "guess"
    /\ UNCHANGED round_begin

\* lines 190-196
main_replay(answer) ==
    /\ pc = "replay"
    /\ IF lower(strip(answer)) = << "y" >>
       THEN /\ reset_game
            /\ pc' = "top"
            /\ round_begin' = now
       ELSE /\ pc' = "done"
            /\ UNCHANGED << level, file, dictionary, current_lives,
                            guessed_letters, game_over, won, target_word,
                            display_word, start_time, now, phase, outcome,
                            round_begin >>

\* lines 199-203: the input arrived after the timer ran out
main_guess_late ==
    /\ pc = "guess"
    /\ is_time_up
    /\ pc' = "top"
    /\ UNCHANGED << level, file, dictionary, current_lives, guessed_letters,
                    game_over, won, target_word, display_word, start_time,
                    now, phase, outcome, round_begin >>

\* lines 199-213: the input is forwarded to make_guess; a ValueError is
\* reported and the loop goes on
main_guess_forward(raw) ==
    /\ pc = "guess"
    /\ ~is_time_up
    /\ make_guess(strip(raw))
    /\ pc' = "top"
    /\ UNCHANGED round_begin

\* lines 177-179, 214-216: KeyboardInterrupt at a prompt inside a try
main_interrupt ==
    /\ pc \in { "choose", "guess" }
    /\ pc' = "done"
    /\ UNCHANGED << level, file, dictionary, current_lives, guessed_letters,
                    game_over, won, target_word, display_word, start_time,
                    now, phase, outcome, round_begin >>

\* time passes while main() waits at a prompt
MainTick == pc \in { "choose", "replay", "guess" } /\ Tick

InitMain ==
    /\ file \in FileStates
    /\ now = 1
    /\ Fields
    /\ pc = "choose"
    /\ round_begin = 0

NextMain ==
    \/ \E choice \in Choices : main_choose(choice)
    \/ main_top
    \/ \E answer \in Answers : main_replay(answer)
    \/ main_guess_late
    \/ \E raw \in RawInputs : main_guess_forward(raw)
    \/ main_interrupt
    \/ MainTick

SpecMain == InitMain /\ [][NextMain]_vars

----------------------------------------------------------------------------
(* Properties of the session under any caller (Spec) *)

\* a guess make_guess accepts: one alphabetic character not yet guessed
Accepted(letter) ==
    /\ Len(letter) = 1
    /\ isalpha(letter)
    /\ lower(letter) \notin guessed_letters

Masked(i) == display_word[i] = "_"

\* C1: in every state of a session, 0 <= current_lives <= max_lives.
C1_LivesInRange ==
    phase = "live" => (0 <= current_lives /\ current_lives <= max_lives)

\* C2: in every state of a session, won is true iff display_word holds no
\* masked position, whatever target the dictionary supplied.
C2_WonIffNoMasked == phase = "live" => (won <=> is_won)

\* C3: an accepted guess is either a hit (a masked position is revealed,
\* lives unchanged, returns True) or a miss (one life lost, display_word
\* unchanged, returns False).
C3_HitOrMiss ==
    [][ \A letter \in Inputs :
          (Accepted(letter) /\ make_guess(letter)) =>
             \/ /\ \E i \in 1..Len(display_word) : Masked(i) /\ display_word'[i] # "_"
                /\ current_lives' = current_lives
                /\ outcome' = Returned("make_guess", "True")
             \/ /\ current_lives' = current_lives - 1
                /\ display_word' = display_word
                /\ outcome' = Returned("make_guess", "False") ]_vars

\* C4: a guess whose lowercased letter is already in guessed_letters raises
\* the duplicate-guess error and changes no field of the session.
C4_DuplicateRejected ==
    [][ \A letter \in Inputs :
          ( /\ Len(letter) = 1 /\ isalpha(letter)
            /\ lower(letter) \in guessed_letters
            /\ make_guess(letter) ) =>
             /\ outcome' = Raised("make_guess", DuplicateGuess)
             /\ UNCHANGED << current_lives, guessed_letters, display_word,
                             game_over, won >> ]_vars

\* a duplicate was rejected in a round with a hit and a miss behind it
C4_Witness ==
    /\ outcome = Raised("make_guess", DuplicateGuess)
    /\ \E l \in guessed_letters : str_in(l, target_word)
    /\ \E l \in guessed_letters : ~str_in(l, target_word)

\* C5: a guess that is not exactly one alphabetic character raises the
\* invalid-input error and changes no field of the session.
C5_InvalidRejected ==
    [][ \A letter \in Inputs :
          ( /\ (Len(letter) # 1 \/ \E i \in 1..Len(letter) : ~char_isalpha(letter[i]))
            /\ make_guess(letter) ) =>
             /\ outcome' = Raised("make_guess", InvalidInput)
             /\ UNCHANGED << current_lives, guessed_letters, display_word,
                             game_over, won >> ]_vars

\* an invalid input was rejected in a round under way
C5_Witness ==
    /\ outcome = Raised("make_guess", InvalidInput)
    /\ guessed_letters # {}
    /\ current_lives < max_lives

\* C7: reset_game leaves the session as __init__ does: full lives, no
\* guesses, flags false, timer unset, a target of the same dictionary,
\* display_word masked afresh.
C7_ResetIsFresh ==
    [][ reset_game =>
          /\ current_lives' = max_lives
          /\ guessed_letters' = {}
          /\ ~game_over' /\ ~won'
          /\ start_time' = 0
          /\ get_remaining_time' = time_limit * TicksPerSecond
          /\ level' = level /\ dictionary' = dictionary
          /\ \E i \in 1..Len(dictionary) : target_word' = dictionary[i]
          /\ Len(display_word') = Len(target_word')
          /\ \A i \in 1..Len(target_word') :
                display_word'[i] =
                   IF char_isalpha(target_word'[i]) THEN "_" ELSE target_word'[i] ]_vars

\* reset_game has run after the clock moved
C7_Witness ==
    /\ outcome = Returned("reset_game", "None")
    /\ now > 1
    /\ start_time = 0

\* C8: the dictionary a session loads is never empty.
C8_DictionaryNeverEmpty == phase # "new" => Len(dictionary) > 0

\* the error the specification names for an empty dictionary
EmptyDictionary == "EmptyDictionary"

\* C9: construction over an empty dictionary fails with the EmptyDictionary
\* error and produces no session.
C9_EmptyDictionaryError ==
    (phase # "new" /\ Len(dictionary) = 0) =>
        (phase = "failed" /\ outcome.raised = EmptyDictionary)

\* C10: display_word has one entry per character of target_word: the
\* character itself when it is not alphabetic or has been guessed, the
\* placeholder otherwise.
C10_PatternMatchesTarget ==
    /\ Len(display_word) = Len(target_word)
    /\ \A i \in 1..Len(target_word) :
          display_word[i] =
             IF ~char_isalpha(target_word[i]) \/ << target_word[i] >> \in guessed_letters
             THEN target_word[i] ELSE "_"

\* a phrase with its space shown, a guessed letter revealed, another masked
C10_Witness ==
    /\ phase = "live"
    /\ \E i \in 1..Len(target_word) : target_word[i] = " " /\ display_word[i] = " "
    /\ \E i \in 1..Len(target_word) :
          char_isalpha(target_word[i]) /\ display_word[i] = target_word[i]
    /\ \E i \in 1..Len(target_word) : Masked(i)

\* the letters guessed that are not in the target
Misses == { l \in guessed_letters : ~str_in(l, target_word) }

SomeGuess == \E letter \in Inputs : make_guess(letter)

\* C11: with no life left game_over is set; game_over, once set, stays set
\* over every make_guess and start_timer; after max_lives missed letters on
\* a target not fully revealed, no life is left, is_game_over() is true and
\* won is false.
C11_LossIsOver ==
    /\ [](phase = "live" =>
            /\ (current_lives <= 0 => game_over)
            /\ ((Cardinality(Misses) = max_lives /\ ~is_won) =>
                   (current_lives = 0 /\ is_game_over /\ ~won)))
    /\ [][ (game_over /\ (SomeGuess \/ start_timer)) => game_over' ]_vars

\* the sixth miss has just taken the last life of an unrevealed target
C11_Witness ==
    /\ outcome = Returned("make_guess", "False")
    /\ Cardinality(Misses) = max_lives
    /\ ~is_won
    /\ current_lives = 0 /\ game_over

\* C12: won implies game_over.
C12_WonImpliesOver == won => game_over

\* a guess has just won the round
C12_Witness ==
    /\ outcome = Returned("make_guess", "True")
    /\ won /\ current_lives > 0

\* C13: get_remaining_time() lies in [0, time_limit]; it is time_limit while
\* the timer is unset, 0 once time_limit seconds have passed since
\* start_timer, and does not grow while start_time stays as it is.
C13_RemainingTime ==
    /\ [](phase = "live" =>
            /\ 0 <= get_remaining_time
            /\ get_remaining_time <= time_limit * TicksPerSecond
            /\ (start_time = 0 => get_remaining_time = time_limit * TicksPerSecond)
            /\ ((start_time # 0 /\ now - start_time >= time_limit * TicksPerSecond)
                   => (get_remaining_time = 0 /\ is_time_up)))
    /\ [][ (phase = "live" /\ start_time' = start_time) =>
              get_remaining_time' <= get_remaining_time ]_vars

\* the timer was started more than time_limit seconds ago
C13_Witness ==
    /\ start_time # 0
    /\ now - start_time > time_limit * TicksPerSecond
    /\ get_remaining_time = 0

\* C14: get_game_status() reports victory if won; else time-expired if the
\* time is up; else loss if no life is left; else the remaining time
\* truncated to whole seconds.
C14_StatusPrecedence ==
    phase = "live" =>
        LET status == get_game_status IN
        /\ won =>
              status = [ text |-> "Congratulations! You guessed the word: ",
                         word |-> target_word ]
        /\ (~won /\ now - start_time >= time_limit * TicksPerSecond /\ start_time # 0) =>
              status = [ text |-> "Time's up! The answer was: ", word |-> target_word ]
        /\ (~won /\ ~(now - start_time >= time_limit * TicksPerSecond /\ start_time # 0)
                 /\ current_lives <= 0) =>
              status = [ text |-> "Game over! The answer was: ", word |-> target_word ]
        /\ (~won /\ ~(now - start_time >= time_limit * TicksPerSecond /\ start_time # 0)
                 /\ current_lives > 0) =>
              /\ status.text = "Time remaining: "
              /\ status.seconds * TicksPerSecond <= get_remaining_time
              /\ get_remaining_time < (status.seconds + 1) * TicksPerSecond

\* a session won after its lives ran out, with the time up
C14_Witness ==
    /\ won /\ current_lives <= 0
    /\ start_time # 0 /\ now - start_time >= time_limit * TicksPerSecond

\* C17: make_guess does not consult the timer: with another start_time and
\* another clock the same guess returns or raises the same and leaves the
\* same current_lives, guessed_letters, display_word, game_over and won.
C17_GuessIgnoresTimer ==
    phase = "live" =>
        \A letter \in Inputs, st \in { 0, 1 }, clock \in { 1, MaxClock } :
            \E here \in { make_guess_on(Self, now, letter) } :
            \E there \in { make_guess_on([ Self EXCEPT !.start_time = st ],
                                         clock, letter) } :
                /\ here.outcome = there.outcome
                /\ here.self.current_lives = there.self.current_lives
                /\ here.self.guessed_letters = there.self.guessed_letters
                /\ here.self.display_word = there.self.display_word
                /\ here.self.game_over = there.self.game_over
                /\ here.self.won = there.self.won

\* a round under way whose time is up
C17_Witness ==
    /\ phase = "live" /\ is_time_up
    /\ ~game_over /\ guessed_letters # {}
    /\ \E i \in 1..Len(display_word) : Masked(i)

\* C18: the queries change nothing; make_guess and start_timer leave
\* target_word and the dictionary alone; start_timer changes start_time
\* only; target_word changes only in reset_game (or the constructor).
C18_Frame ==
    [][ /\ (\E q \in Queries : query(q)) =>
              UNCHANGED << level, dictionary, current_lives, guessed_letters,
                           game_over, won, target_word, display_word,
                           start_time >>
        /\ (start_timer \/ SomeGuess) =>
              UNCHANGED << target_word, dictionary, level >>
        /\ start_timer =>
              UNCHANGED << current_lives, guessed_letters, game_over, won,
                           target_word, display_word, dictionary, level >>
        /\ (target_word' # target_word) =>
              (reset_game \/ \E lv \in Levels : __init__(lv)) ]_vars

\* start_timer ran in a round under way
C18_Witness ==
    /\ outcome = Returned("start_timer", "None")
    /\ start_time > 1
    /\ guessed_letters # {} /\ current_lives < max_lives

\* C19: the lives lost are as many as the guessed letters not in the
\* target: the drawing's "Lives remaining" and "Wrong guesses" agree, and the
\* wrong-guesses line is there exactly when a life has been lost.
C19_LivesMatchWrongGuesses ==
    phase = "live" =>
        LET drawing == get_hangman_drawing IN
        /\ max_lives - current_lives = Cardinality(Misses)
        /\ max_lives - drawing.lives_remaining = Cardinality(drawing.wrong_guesses)
        /\ drawing.wrong_line <=> (current_lives < max_lives)

\* a drawing with wrong guesses next to a guessed letter that is no
\* character of the target but is in it
C19_Witness ==
    /\ phase = "live"
    /\ current_lives < max_lives
    /\ get_hangman_drawing.wrong_line
    /\ \E l \in guessed_letters : Len(l) = 2 /\ str_in(l, target_word)

\* C20: once game_over is set no make_guess changes won, current_lives or
\* display_word, and won is never true with no life left.
C20_OutcomeFinal ==
    /\ [](~(won /\ current_lives <= 0))
    /\ [][ (game_over /\ SomeGuess) =>
              UNCHANGED << won, current_lives, display_word >> ]_vars

----------------------------------------------------------------------------
(* Properties of main() (SpecMain) *)

\* C6: the time limit is per round: main() forwards a guess to make_guess
\* only while fewer than time_limit seconds have passed since the round began.
C6_RoundTimeLimit ==
    [][ \A raw \in RawInputs :
          main_guess_forward(raw) =>
             now - round_begin < time_limit * TicksPerSecond ]_vars

\* C15: main() calls start_timer() once per round: only with the timer
\* unset, so that a start_time once set stays as it is until the reset.
C15_TimerOncePerRound ==
    [][ /\ main_top => start_time = 0
        /\ (start_time # 0 /\ start_time' # 0) => start_time' = start_time ]_vars

\* C16: main() forwards a guess only after is_game_over() was false at the
\* head of the iteration and with is_time_up() false: never with game_over
\* set or no life left, and current_lives stays within [0, max_lives].
C16_MainGuards ==
    /\ [](pc = "guess" => (~game_over /\ current_lives > 0))
    /\ [](phase = "live" => (0 <= current_lives /\ current_lives <= max_lives))
    /\ [][ \A raw \in RawInputs :
             main_guess_forward(raw) =>
                (~is_time_up /\ ~game_over /\ current_lives > 0) ]_vars

\* main() forwarded the guess that took the last life
C16_Witness ==
    /\ pc = "top"
    /\ outcome = Returned("make_guess", "False")
    /\ current_lives = 0 /\ game_over

====
